---- MODULE Spec2Model ----
(***************************************************************************)
(* Authenticated API-request pipeline of the Homebridge n8n node:          *)
(* credential resolution, token resolution, request dispatch, retry with   *)
(* exponential backoff and error normalisation                             *)
(* (reference/GenericFunctions.ts), together with the token resolution of  *)
(* the declarative catalog (addAuthToRequest.send.preSend).                *)
(*                                                                         *)
(* Strings that the code slices or concatenates (URLs, endpoints, message  *)
(* templates) are sequences of atoms; the atom "/" is the slash character  *)
(* and no other atom begins or ends with a slash.  JavaScript's undefined  *)
(* / null / '' for a string field is the empty string "", for a number it  *)
(* is 0 (both are falsy, as the code's || and ! tests see them).           *)
(***************************************************************************)
EXTENDS Integers, Sequences, FiniteSets, TLC

VARIABLES
    pc,          \* position of the current top-level call of homebridgeApiRequest
    call,        \* arguments and context of the current top-level call
    options,     \* IHttpRequestOptions built by homebridgeApiRequest
    retryCount,  \* parameter retryCount of homebridgeApiRequestWithRetry
    attempts,    \* number of this.helpers.httpRequest invocations of this call
    delays,      \* setTimeout durations of this call, in order
    outcomes,    \* what each attempt of this call met: a status, or "threw"
    result,      \* what the top-level call returned or threw
    tok,         \* token resolution: inputs and the outcome of both resolvers
    norm,        \* error normaliser: the failure given and the error produced
    creds,       \* getCredentials: the raw configuration and the outcome
    login,       \* authenticate: the call, its requests and its outcome
    batch,       \* executeBatchOperations: operations, index i and results
    pag,         \* handlePaginatedRequest: limit, page, allItems and requests
    exec         \* execute: items, index i, returnData and the outcome

drivers == <<creds, login, batch, pag, exec>>

vars == <<pc, call, options, retryCount, attempts, delays, outcomes, result, tok, norm,
          creds, login, batch, pag, exec>>

-----------------------------------------------------------------------------
(* Bounds of the model *)

MaxItems == 2
MaxUrlLen == 3

-----------------------------------------------------------------------------
(* Constants of GenericFunctions.ts *)

MAX_RETRIES == 3
RETRY_DELAY == 1000
RETRY_STATUS_CODES == {429, 500, 502, 503, 504}
ListedStatuses == {400, 401, 403, 404, 422, 429, 500, 502, 503, 504}

-----------------------------------------------------------------------------
(* Errors.  Every error has the same shape so that they can be compared. *)

\* a response body: absent (undefined), or an object whose message field is
\* message ("" when the object has none)
NoBody == [present |-> FALSE, message |-> ""]
EmptyObject == [present |-> TRUE, message |-> ""]

OperationError(text) ==
    [name |-> "NodeOperationError", message |-> <<text>>, description |-> <<>>,
     httpCode |-> <<>>, cause |-> NoBody]

TypeError(text) ==
    [name |-> "TypeError", message |-> <<text>>, description |-> <<>>,
     httpCode |-> <<>>, cause |-> NoBody]

PlainError(text) ==
    [name |-> "Error", message |-> <<text>>, description |-> <<>>,
     httpCode |-> <<>>, cause |-> NoBody]

NoCredentialsMessage == "No Homebridge credentials found. Please configure credentials first."
ServerUrlRequiredMessage == "Server URL is required in Homebridge credentials."
UsernameRequiredMessage == "Username is required in Homebridge credentials."
PasswordRequiredMessage == "Password is required in Homebridge credentials."
NoAccessTokenMessage == "No access token available. Please either:\n1. Connect a Login node to this node, or\n2. Manually enter the access token in the \"Access Token\" field."
PreSendNoAccessTokenMessage == "No access token available. Please either: 1) Connect the Login node to this node, or 2) Manually enter the access token in the \"Access Token\" field."
LoginCredentialsRequiredMessage == "Homebridge credentials are required for login operation"
UndefinedItemMessage == "Cannot read properties of undefined (reading 'json')"

Throw(e) == [ok |-> FALSE, value |-> <<>>, error |-> e]
NoError == [name |-> "", message |-> <<>>, description |-> <<>>, httpCode |-> <<>>, cause |-> NoBody]
Return(v) == [ok |-> TRUE, value |-> v, error |-> NoError]

-----------------------------------------------------------------------------
(* getCredentials *)

EndsWithSlash(s) == Len(s) > 0 /\ s[Len(s)] = "/"
StartsWithSlash(s) == Len(s) > 0 /\ s[1] = "/"

\* a slice that drops two characters
DropLastTwo(s) == SubSeq(s, 1, Len(s) - 2)

\* serverUrl.slice(0, -1)
DropLast(s) == SubSeq(s, 1, Len(s) - 1)

\* the validation with the username tested before the server URL
getCredentialsUsernameFirst(raw) ==
    IF ~raw.present THEN Throw(OperationError(NoCredentialsMessage))
    ELSE IF raw.username = "" THEN Throw(OperationError(UsernameRequiredMessage))
    ELSE IF raw.serverUrl = <<>> THEN Throw(OperationError(ServerUrlRequiredMessage))
    ELSE IF raw.password = "" THEN Throw(OperationError(PasswordRequiredMessage))
    ELSE Return(<<[serverUrl |-> IF EndsWithSlash(raw.serverUrl)
                                   THEN DropLast(raw.serverUrl)
                                   ELSE raw.serverUrl,
                   username |-> raw.username,
                   password |-> raw.password,
                   otp |-> raw.otp]>>)

\* raw: [present, serverUrl, username, password, otp]
getCredentials(raw) ==
    IF ~raw.present THEN Throw(OperationError(NoCredentialsMessage))
    ELSE IF raw.serverUrl = <<>> THEN Throw(OperationError(ServerUrlRequiredMessage))
    ELSE IF raw.username = "" THEN Throw(OperationError(UsernameRequiredMessage))
    ELSE IF raw.password = "" THEN Throw(OperationError(PasswordRequiredMessage))
    ELSE Return(<<[serverUrl |-> IF EndsWithSlash(raw.serverUrl)
                                   THEN DropLast(raw.serverUrl)
                                   ELSE raw.serverUrl,
                   username |-> raw.username,
                   password |-> raw.password,
                   otp |-> raw.otp]>>)

-----------------------------------------------------------------------------
(* Upstream input data.  An item's json payload is an object, with a field  *)
(* access_token ("" when absent or empty), or an array, whose elements are  *)
(* objects with such a field; elems lists the access_token of each element. *)

Tokens == {"abc", "xyz"}
TokenOrNone == Tokens \cup {""}

JsonObjects == [isArray : {FALSE}, access_token : TokenOrNone, elems : {<<>>}]
JsonArrays == [isArray : {TRUE}, access_token : {""},
               elems : {<<>>, <<"", "abc">>} \cup {<<t>> : t \in TokenOrNone}]
Json == JsonObjects \cup JsonArrays

ItemLists(n) == UNION {[1..k -> Json] : k \in 0..n}

\* the access_token the code reads from one upstream item; "" when it finds none
ItemToken(json) ==
    IF json.access_token # "" THEN json.access_token
    ELSE IF json.isArray /\ Len(json.elems) > 0 /\ json.elems[1] # ""
         THEN json.elems[1]
         ELSE ""

\* getAccessToken(itemIndex): the parameter first, then items[itemIndex] alone
getAccessToken(accessToken, items, itemIndex) ==
    IF accessToken # "" THEN Return(<<accessToken>>)
    ELSE IF Len(items) > 0 /\ itemIndex + 1 > Len(items)
         THEN Throw(TypeError(UndefinedItemMessage))
    ELSE IF Len(items) > 0 /\ ItemToken(items[itemIndex + 1]) # ""
         THEN Return(<<ItemToken(items[itemIndex + 1])>>)
    ELSE Throw(OperationError(NoAccessTokenMessage))

\* addAuthToRequest.send.preSend, the scan of lines 26-51: the access_token of
\* the first upstream item that carries one; "" when none does
RECURSIVE ScanItems(_, _)
ScanItems(items, i) ==
    IF i > Len(items) THEN ""
    ELSE IF ItemToken(items[i]) # "" THEN ItemToken(items[i])
    ELSE ScanItems(items, i + 1)

\* addAuthToRequest.send.preSend on a request of the declarative catalog.
\* requestOptions: [isLogin, authorization, body]; the value returned is the
\* request as sent on.
preSend(requestOptions, raw, accessToken, items) ==
    IF requestOptions.isLogin
    THEN IF ~raw.present
         THEN Throw(PlainError(LoginCredentialsRequiredMessage))
         ELSE Return(<<[requestOptions EXCEPT
                          !.body = <<raw.username, raw.password>>]>>)
    ELSE LET upstream == ScanItems(items, 1)
             token == IF upstream # "" THEN upstream ELSE accessToken
         IN  IF token = ""
             THEN Throw(PlainError(PreSendNoAccessTokenMessage))
             ELSE Return(<<[requestOptions EXCEPT
                              !.authorization = <<"Bearer ", token>>]>>)

-----------------------------------------------------------------------------
(* handleApiError *)

\* error: [statusCode, response : [present, statusCode, body], message, error]
NoResponse == [present |-> FALSE, statusCode |-> 0, body |-> NoBody]

\* error.statusCode || error.response?.statusCode
ResolvedStatus(error) ==
    IF error.statusCode # 0 THEN error.statusCode
    ELSE IF error.response.present THEN error.response.statusCode
    ELSE 0

\* the body read from error.error alone
ErrorBodyNoResponse(error) ==
    IF error.error.present THEN error.error ELSE EmptyObject

\* error.response?.body || error.error || {}
ErrorBody(error) ==
    IF error.response.present /\ error.response.body.present THEN error.response.body
    ELSE IF error.error.present THEN error.error
    ELSE EmptyObject

Digit(d) == CASE d = 0 -> "0" [] d = 1 -> "1" [] d = 2 -> "2" [] d = 3 -> "3"
              [] d = 4 -> "4" [] d = 5 -> "5" [] d = 6 -> "6" [] d = 7 -> "7"
              [] d = 8 -> "8" [] d = 9 -> "9"

\* Number.prototype.toString of a non-negative integer
RECURSIVE NumberToString(_)
NumberToString(n) == IF n < 10 THEN <<Digit(n)>> ELSE NumberToString(n \div 10) \o <<Digit(n % 10)>>

ApiError(message, description, statusCode, cause) ==
    [name |-> "NodeApiError", message |-> message, description |-> description,
     httpCode |-> NumberToString(statusCode), cause |-> cause]

DefaultMessage(method, endpoint) ==
    <<"Homebridge API Error (", method, " ">> \o endpoint \o <<")">>

handleApiError(error, endpoint, method) ==
    LET statusCode == IF ResolvedStatus(error) # 0 THEN ResolvedStatus(error) ELSE 500
        errorMessage == IF error.message # "" THEN error.message ELSE "Unknown error"
        errorBody == ErrorBody(error)
    IN  CASE statusCode = 400 ->
               ApiError(<<"Bad Request">>,
                        <<"The request was invalid. Please check your parameters.">>,
                        statusCode, errorBody)
          [] statusCode = 401 ->
               ApiError(<<"Unauthorized">>,
                        <<"Access token is invalid or expired. Please authenticate again.">>,
                        statusCode, errorBody)
          [] statusCode = 403 ->
               ApiError(<<"Forbidden">>,
                        <<"You do not have permission to perform this action.">>,
                        statusCode, errorBody)
          [] statusCode = 404 ->
               ApiError(<<"Not Found">>,
                        <<"The requested resource was not found.">>,
                        statusCode, errorBody)
          [] statusCode = 422 ->
               ApiError(<<"Validation Error">>,
                        IF errorBody.message # ""
                        THEN <<"The request data is invalid. ", errorBody.message>>
                        ELSE <<"The request data is invalid. ">>,
                        statusCode, errorBody)
          [] statusCode = 429 ->
               ApiError(<<"Rate Limit Exceeded">>,
                        <<"Too many requests. Please wait before trying again.">>,
                        statusCode, errorBody)
          [] statusCode \in {500, 502, 503, 504} ->
               ApiError(<<"Server Error">>,
                        <<"The Homebridge server encountered an error. Please try again later.">>,
                        statusCode, errorBody)
          [] OTHER ->
               ApiError(DefaultMessage(method, endpoint), <<errorMessage>>,
                        statusCode, errorBody)

-----------------------------------------------------------------------------
(* The dispatcher, this.helpers.httpRequest, and the hub behind it *)

HubStatuses == {200, 418} \cup ListedStatuses
Is2xx(status) == status >= 200 /\ status < 300

\* errors the helper throws by itself: with or without a status of their own,
\* or with the status on error.response only
ThrownErrors ==
    {[statusCode |-> s, response |-> NoResponse, message |-> "ECONNREFUSED", error |-> NoBody] :
        s \in {0, 418} \cup ListedStatuses}
    \cup
    {[statusCode |-> 0, response |-> [present |-> TRUE, statusCode |-> s, body |-> NoBody],
      message |-> "Request failed", error |-> NoBody] : s \in {404, 503}}

\* the error the helper throws for a non-2xx answer it does not ignore
HttpError(status, body) ==
    [statusCode |-> status,
     response |-> [present |-> TRUE, statusCode |-> status, body |-> body],
     message |-> "Request failed with status code", error |-> body]

\* this.helpers.httpRequest(options) when the hub answers with status and body:
\* with ignoreHttpStatusErrors the body is returned whatever the status is
httpRequest(opts, status, body) ==
    IF Is2xx(status) \/ opts.ignoreHttpStatusErrors
    THEN Return(<<body>>)
    ELSE Throw(HttpError(status, body))

-----------------------------------------------------------------------------
(* homebridgeApiRequest and homebridgeApiRequestWithRetry *)

\* the query string: none, or the page and limit handlePaginatedRequest adds
NoQs == [present |-> FALSE, page |-> 0, limit |-> 0]

NoOptions ==
    [method |-> "", url |-> <<>>, endpoint |-> <<>>, authorization |-> <<>>,
     qs |-> NoQs, ignoreHttpStatusErrors |-> FALSE]

\* a slash put before every endpoint
NormalizeEndpointAlways(endpoint) == <<"/">> \o endpoint

\* lines 212-229: the endpoint with its leading slash, and the request options
NormalizeEndpoint(endpoint) ==
    IF ~StartsWithSlash(endpoint) THEN <<"/">> \o endpoint ELSE endpoint

BuildOptions(credentials, accessToken, req) ==
    [method |-> req.method,
     url |-> credentials.serverUrl \o NormalizeEndpoint(req.endpoint),
     endpoint |-> NormalizeEndpoint(req.endpoint),
     authorization |-> <<"Bearer ", accessToken>>,
     qs |-> req.qs,
     ignoreHttpStatusErrors |-> TRUE]

RECURSIVE Pow2(_)
Pow2(n) == IF n = 0 THEN 1 ELSE 2 * Pow2(n - 1)

\* the retry test with the ceiling off by one
ShouldRetryOffByOne(statusCode, count) ==
    statusCode \in RETRY_STATUS_CODES /\ count <= MAX_RETRIES

\* the retry test without the status test
ShouldRetryAnyStatus(statusCode, count) == count < MAX_RETRIES

\* a linear backoff
BackoffDelayLinear(count) == RETRY_DELAY * (count + 1)

\* the retry test that also retries a failure without a status
ShouldRetryNoStatus(statusCode, count) ==
    (statusCode \in RETRY_STATUS_CODES \/ statusCode = 0) /\ count < MAX_RETRIES

\* lines 258-261
ShouldRetry(statusCode, count) ==
    statusCode \in RETRY_STATUS_CODES /\ count < MAX_RETRIES

\* line 262
BackoffDelay(count) == RETRY_DELAY * Pow2(count)

NoResult == [kind |-> "none", body |-> NoBody, error |-> NoError]
Returned(body) == [kind |-> "return", body |-> body, error |-> NoError]
Thrown(e) == [kind |-> "throw", body |-> NoBody, error |-> e]

\* the raw configurations, requests and contexts of the calls explored
RawCredentials ==
    {[present |-> TRUE, serverUrl |-> <<"http://host:8581">>, username |-> "admin",
      password |-> "secret", otp |-> ""],
     [present |-> TRUE, serverUrl |-> <<"http://host:8581", "/">>, username |-> "admin",
      password |-> "secret", otp |-> ""],
     [present |-> TRUE, serverUrl |-> <<"http://host:8581">>, username |-> "admin",
      password |-> "", otp |-> ""],
     [present |-> TRUE, serverUrl |-> <<>>, username |-> "admin",
      password |-> "secret", otp |-> ""],
     [present |-> FALSE, serverUrl |-> <<>>, username |-> "", password |-> "", otp |-> ""]}

Requests ==
    {[method |-> "GET", endpoint |-> <<"/", "api/accessories">>, qs |-> NoQs],
     [method |-> "POST", endpoint |-> <<"api/auth/noauth">>, qs |-> NoQs]}

CallItems ==
    {<<>>,
     <<[isArray |-> FALSE, access_token |-> "abc", elems |-> <<>>]>>,
     <<[isArray |-> FALSE, access_token |-> "", elems |-> <<>>]>>}

ResponseBodies == {EmptyObject, [present |-> TRUE, message |-> "username taken"]}

\* the options built although no token was resolved
PrepareWithoutToken(raw, accessToken, items, itemIndex, req) ==
    LET credentials == getCredentials(raw)
        token == getAccessToken(accessToken, items, itemIndex)
    IN  IF ~credentials.ok THEN Throw(credentials.error)
        ELSE Return(<<BuildOptions(credentials.value[1],
                                   IF token.ok THEN token.value[1] ELSE "", req)>>)

\* homebridgeApiRequest, lines 209-229: the credentials, then the token, then
\* the options of the request
Prepare(raw, accessToken, items, itemIndex, req) ==
    LET credentials == getCredentials(raw)
        token == getAccessToken(accessToken, items, itemIndex)
    IN  IF ~credentials.ok THEN Throw(credentials.error)
        ELSE IF ~token.ok THEN Throw(token.error)
        ELSE Return(<<BuildOptions(credentials.value[1], token.value[1], req)>>)

\* a call that goes on with the retry count the previous call ended with
StartCallKeepingCount(raw, accessToken, items, itemIndex, req) ==
    LET prepared == Prepare(raw, accessToken, items, itemIndex, req)
    IN  /\ call' = [raw |-> raw, accessToken |-> accessToken, items |-> items,
                    itemIndex |-> itemIndex, method |-> req.method,
                    endpoint |-> req.endpoint]
        /\ UNCHANGED retryCount
        /\ delays' = <<>>
        /\ outcomes' = <<>>
        /\ IF ~prepared.ok
              THEN /\ result' = Thrown(prepared.error)
                   /\ options' = NoOptions
                   /\ attempts' = 0
                   /\ pc' = "done"
              ELSE /\ result' = NoResult
                   /\ options' = prepared.value[1]
                   /\ attempts' = 1
                   /\ pc' = "inflight"

\* homebridgeApiRequest up to its first await of the dispatcher: it throws
\* before any request, or attempt 1 of homebridgeApiRequestWithRetry is in flight
StartCall(raw, accessToken, items, itemIndex, req) ==
    LET prepared == Prepare(raw, accessToken, items, itemIndex, req)
    IN  /\ call' = [raw |-> raw, accessToken |-> accessToken, items |-> items,
                    itemIndex |-> itemIndex, method |-> req.method,
                    endpoint |-> req.endpoint]
        /\ retryCount' = 0
        /\ delays' = <<>>
        /\ outcomes' = <<>>
        /\ IF ~prepared.ok
              THEN /\ result' = Thrown(prepared.error)
                   /\ options' = NoOptions
                   /\ attempts' = 0
                   /\ pc' = "done"
              ELSE /\ result' = NoResult
                   /\ options' = prepared.value[1]
                   /\ attempts' = 1
                   /\ pc' = "inflight"

\* a top-level call of homebridgeApiRequest by some caller
CallHomebridgeApiRequest ==
    /\ pc = "idle"
    /\ \E raw \in RawCredentials, accessToken \in {"", "xyz"}, items \in CallItems,
          itemIndex \in 0..(MaxItems - 1), req \in Requests :
         StartCall(raw, accessToken, items, itemIndex, req)
    /\ UNCHANGED <<tok, norm>>
    /\ UNCHANGED drivers

\* a catch block that normalises the error before the retry test
CatchNormalizingFirst(error) ==
    IF ShouldRetry(ResolvedStatus(error), retryCount)
    THEN /\ delays' = Append(delays, BackoffDelay(retryCount))
         /\ pc' = "backoff"
         /\ result' = Thrown(handleApiError(error, options.endpoint, options.method))
    ELSE /\ result' = Thrown(handleApiError(error, options.endpoint, options.method))
         /\ pc' = "done"
         /\ UNCHANGED delays

\* the catch block of homebridgeApiRequestWithRetry (lines 254-268), and when
\* it rethrows, the catch block of homebridgeApiRequest (lines 234-236)
Catch(error) ==
    IF ShouldRetry(ResolvedStatus(error), retryCount)
    THEN /\ delays' = Append(delays, BackoffDelay(retryCount))
         /\ pc' = "backoff"
         /\ UNCHANGED result
    ELSE /\ result' = Thrown(handleApiError(error, options.endpoint, options.method))
         /\ pc' = "done"
         /\ UNCHANGED delays

\* the hub answers the request in flight, with one of the given answers
AnswerFrom(statuses, bodies) ==
    /\ pc = "inflight"
    /\ \E status \in statuses, body \in bodies :
         LET r == httpRequest(options, status, body)
         IN  /\ outcomes' = Append(outcomes, [answered |-> TRUE, threw |-> ~r.ok,
                                                 status |-> status])
             /\ IF r.ok
                   THEN /\ result' = Returned(r.value[1])
                        /\ pc' = "done"
                        /\ UNCHANGED delays
                   ELSE Catch(r.error)
    /\ UNCHANGED <<call, options, retryCount, attempts, tok, norm>>
    /\ UNCHANGED drivers

\* the dispatcher throws one of the given errors
ThrowFrom(errors) ==
    /\ pc = "inflight"
    /\ \E error \in errors :
         /\ outcomes' = Append(outcomes, [answered |-> FALSE, threw |-> TRUE,
                                             status |-> ResolvedStatus(error)])
         /\ Catch(error)
    /\ UNCHANGED <<call, options, retryCount, attempts, tok, norm>>
    /\ UNCHANGED drivers

\* the hub answers the request in flight
HubAnswers == AnswerFrom(HubStatuses, ResponseBodies)

\* the dispatcher throws an error of its own
HttpRequestThrows == ThrowFrom(ThrownErrors)

\* the backoff timer fires: line 264, the next attempt
BackoffElapses ==
    /\ pc = "backoff"
    /\ retryCount' = retryCount + 1
    /\ attempts' = attempts + 1
    /\ pc' = "inflight"
    /\ UNCHANGED <<call, options, delays, outcomes, result, tok, norm>>
    /\ UNCHANGED drivers

NoCall ==
    [raw |-> [present |-> FALSE, serverUrl |-> <<>>, username |-> "", password |-> "",
              otp |-> ""],
     accessToken |-> "", items |-> <<>>, itemIndex |-> 0, method |-> "", endpoint |-> <<>>]

PipelineIdle ==
    /\ pc = "idle"
    /\ call = NoCall
    /\ options = NoOptions
    /\ retryCount = 0
    /\ attempts = 0
    /\ delays = <<>>
    /\ outcomes = <<>>
    /\ result = NoResult

NoTok == [accessToken |-> "", items |-> <<>>, itemIndex |-> 0, isLogin |-> FALSE,
          credentials |-> FALSE, reference |-> <<>>, declarative |-> <<>>]
NoNorm == [error |-> [statusCode |-> 0, response |-> NoResponse, message |-> "",
                      error |-> NoBody],
           endpoint |-> <<>>, method |-> "", out |-> <<>>]

\* the caller takes the value returned or the error thrown; nothing of the
\* call is kept but the stale locals of its last frame
ReturnToCaller ==
    /\ pc = "done"
    /\ pc' = "idle"
    /\ call' = NoCall
    /\ options' = NoOptions
    /\ delays' = <<>>
    /\ outcomes' = <<>>
    /\ result' = NoResult
    /\ UNCHANGED <<retryCount, attempts, tok, norm>>
    /\ UNCHANGED drivers

NoCreds == [raw |-> NoCall.raw, out |-> <<>>]

DriversIdle ==
    /\ creds = NoCreds
    /\ login = <<>>
    /\ batch = <<>>
    /\ pag = <<>>
    /\ exec = <<>>

Init ==
    /\ PipelineIdle
    /\ tok = NoTok
    /\ norm = NoNorm
    /\ DriversIdle

Next ==
    \/ CallHomebridgeApiRequest
    \/ HubAnswers
    \/ HttpRequestThrows
    \/ BackoffElapses
    \/ ReturnToCaller

Spec == Init /\ [][Next]_vars

-----------------------------------------------------------------------------
(* Token resolution on its own: getAccessToken of the reference             *)
(* implementation and preSend of the declarative catalog, on the same       *)
(* explicit parameter and upstream items                                    *)

CatalogRequest(isLogin) == [isLogin |-> isLogin, authorization |-> <<>>, body |-> <<>>]

CatalogCredentials(present) ==
    IF present
    THEN [present |-> TRUE, serverUrl |-> <<"http://host:8581">>, username |-> "admin",
          password |-> "secret", otp |-> ""]
    ELSE NoCall.raw

TokInit ==
    /\ PipelineIdle
    /\ norm = NoNorm
    /\ DriversIdle
    /\ tok \in [accessToken : TokenOrNone, items : ItemLists(MaxItems),
                 itemIndex : 0..(MaxItems - 1), isLogin : BOOLEAN,
                 credentials : BOOLEAN, reference : {<<>>}, declarative : {<<>>}]

GetAccessToken ==
    /\ tok.reference = <<>>
    /\ tok' = [tok EXCEPT !.reference =
                  <<getAccessToken(tok.accessToken, tok.items, tok.itemIndex)>>]
    /\ UNCHANGED <<pc, call, options, retryCount, attempts, delays, outcomes, result, norm>>
    /\ UNCHANGED drivers

PreSend ==
    /\ tok.declarative = <<>>
    /\ tok' = [tok EXCEPT !.declarative =
                  <<preSend(CatalogRequest(tok.isLogin), CatalogCredentials(tok.credentials),
                            tok.accessToken, tok.items)>>]
    /\ UNCHANGED <<pc, call, options, retryCount, attempts, delays, outcomes, result, norm>>
    /\ UNCHANGED drivers

TokNext == GetAccessToken \/ PreSend

SpecToken == TokInit /\ [][TokNext]_vars

-----------------------------------------------------------------------------
(* The error normaliser on its own *)

NormBodies == {NoBody, EmptyObject, [present |-> TRUE, message |-> "username taken"]}

NormErrors ==
    [statusCode : {0, 418} \cup ListedStatuses,
     response : {NoResponse} \cup
                [present : {TRUE}, statusCode : {0, 404, 422, 503}, body : NormBodies],
     message : {"", "ECONNREFUSED"},
     error : NormBodies]

NormInit ==
    /\ PipelineIdle
    /\ tok = NoTok
    /\ DriversIdle
    /\ \E e \in NormErrors, req \in Requests :
         norm = [error |-> e, endpoint |-> NormalizeEndpoint(req.endpoint),
                 method |-> req.method, out |-> <<>>]

HandleApiError ==
    /\ norm.out = <<>>
    /\ norm' = [norm EXCEPT !.out = <<handleApiError(norm.error, norm.endpoint, norm.method)>>]
    /\ UNCHANGED <<pc, call, options, retryCount, attempts, delays, outcomes, result, tok>>
    /\ UNCHANGED drivers

NormNext == HandleApiError

SpecNormalize == NormInit /\ [][NormNext]_vars

-----------------------------------------------------------------------------
(* Properties of the retry policy *)

Last(seq) == seq[Len(seq)]

NonTransientStatuses == {400, 401, 403, 404, 422}

\* C1: a failed attempt is retried if and only if its resolved status is one
\* of 429, 500, 502, 503, 504 and fewer than 3 retries were made; so one call
\* makes at most 3 retries and 4 HTTP attempts.
RetryCeiling ==
    /\ attempts <= 4
    /\ Len(delays) <= 3
    /\ retryCount <= 3
    /\ pc = "backoff" =>
          /\ Last(outcomes).threw
          /\ Last(outcomes).status \in {429, 500, 502, 503, 504}
          /\ retryCount < 3
    /\ (pc = "done" /\ outcomes # <<>> /\ Last(outcomes).threw) =>
          /\ result.kind = "throw"
          /\ ~(Last(outcomes).status \in {429, 500, 502, 503, 504} /\ retryCount < 3)

\* retries exhausted: the fourth attempt failed with a transient status
RetryCeilingWitness ==
    /\ pc = "done"
    /\ attempts = 4
    /\ Len(delays) = 3
    /\ Last(outcomes).threw
    /\ Last(outcomes).status = 503
    /\ result.kind = "throw"

\* C2: the wait before retry n (n = 0, 1, 2) is 1000ms x 2^n, a wait happens
\* only between a failed attempt and the next attempt, and a dispatcher that
\* fails with 503 three times and then succeeds gives a successful call after
\* the delays 1000, 2000, 4000.
BackoffSchedule ==
    /\ \A n \in 1..Len(delays) :
          /\ delays[n] = <<1000, 2000, 4000>>[n]
          /\ outcomes[n].threw
    /\ pc = "backoff" => Len(delays) = attempts /\ Len(outcomes) = attempts
    /\ pc = "inflight" => Len(delays) = attempts - 1 /\ Len(outcomes) = attempts - 1
    /\ (pc = "done" /\ outcomes # <<>>) =>
          Len(delays) = attempts - 1 /\ Len(outcomes) = attempts
    /\ (/\ pc = "done"
        /\ Len(outcomes) = 4
        /\ \A n \in 1..3 : outcomes[n].threw /\ outcomes[n].status = 503
        /\ ~outcomes[4].threw) =>
          result.kind = "return" /\ delays = <<1000, 2000, 4000>>

\* 503, 503, 503, then a 200 answer
BackoffScheduleWitness ==
    /\ pc = "done"
    /\ Len(outcomes) = 4
    /\ \A n \in 1..3 : outcomes[n].threw /\ outcomes[n].status = 503
    /\ ~outcomes[4].threw
    /\ outcomes[4].status = 200
    /\ result.kind = "return"
    /\ delays = <<1000, 2000, 4000>>

\* C3: an attempt that fails with 400, 401, 403, 404 or 422 is never retried:
\* no retry, no backoff delay, and the error surfaces after the first attempt.
NonTransientNotRetried ==
    (outcomes # <<>> /\ outcomes[1].threw /\ outcomes[1].status \in NonTransientStatuses) =>
        /\ pc = "done"
        /\ Len(outcomes) = 1
        /\ attempts = 1
        /\ retryCount = 0
        /\ delays = <<>>
        /\ result.kind = "throw"
        /\ result.error.httpCode = NumberToString(outcomes[1].status)

\* the dispatcher failed with 404 on the first attempt
NonTransientNotRetriedWitness ==
    /\ pc = "done"
    /\ outcomes # <<>>
    /\ outcomes[1].threw
    /\ outcomes[1].status = 404
    /\ result.kind = "throw"

\* C4: whenever the hub answers a request of homebridgeApiRequest with a
\* non-2xx status, the call does not return the body as a successful result:
\* it fails with an error carrying the status code.
HttpErrorsSurfaced ==
    (pc = "done" /\ outcomes # <<>> /\ Last(outcomes).answered
       /\ ~Is2xx(Last(outcomes).status)) =>
        /\ result.kind = "throw"
        /\ result.error.httpCode = NumberToString(Last(outcomes).status)

-----------------------------------------------------------------------------
(* Properties of the error normaliser *)

\* the message of the raw body the failure carries
ServerMessage(error) ==
    IF error.response.present /\ error.response.body.present
    THEN error.response.body.message
    ELSE IF error.error.present THEN error.error.message ELSE ""

StatusOf(error) ==
    IF error.statusCode # 0 THEN error.statusCode ELSE error.response.statusCode

Range(seq) == {seq[i] : i \in 1..Len(seq)}

\* the message of each listed status
TableMessage(status) ==
    CASE status = 400 -> <<"Bad Request">>
      [] status = 401 -> <<"Unauthorized">>
      [] status = 403 -> <<"Forbidden">>
      [] status = 404 -> <<"Not Found">>
      [] status = 422 -> <<"Validation Error">>
      [] status = 429 -> <<"Rate Limit Exceeded">>
      [] status \in {500, 502, 503, 504} -> <<"Server Error">>

\* the description of each listed status but 422; serverError is the text of
\* the rows 500, 502, 503, 504
TableDescription(status, serverError) ==
    CASE status = 400 -> <<"The request was invalid. Please check your parameters.">>
      [] status = 401 -> <<"Access token is invalid or expired. Please authenticate again.">>
      [] status = 403 -> <<"You do not have permission to perform this action.">>
      [] status = 404 -> <<"The requested resource was not found.">>
      [] status = 429 -> <<"Too many requests. Please wait before trying again.">>
      [] status \in {500, 502, 503, 504} -> <<serverError>>

ListedMapping(serverError) ==
    (norm.out # <<>> /\ StatusOf(norm.error) \in ListedStatuses) =>
        LET status == StatusOf(norm.error)
            out == norm.out[1]
        IN  /\ out.name = "NodeApiError"
            /\ out.message = TableMessage(status)
            /\ status # 422 => out.description = TableDescription(status, serverError)
            /\ status = 422 =>
                  /\ out.description[1] = "The request data is invalid. "
                  /\ ServerMessage(norm.error) # "" =>
                        ServerMessage(norm.error) \in Range(out.description)

\* C5 as stated: every listed status gets the message and description of the
\* table, whose server-error row reads "The server encountered an error.
\* Please try again later.", and for 422 the description contains the
\* server-provided message.
ListedMappingAsStated ==
    ListedMapping("The server encountered an error. Please try again later.")

\* C5 as amended: the same, the description of 500, 502, 503 and 504 being
\* "The Homebridge server encountered an error. Please try again later."
ListedMappingAmended ==
    ListedMapping("The Homebridge server encountered an error. Please try again later.")

\* a 422 whose body says "username taken" has been normalised
ListedMappingWitness ==
    /\ norm.out # <<>>
    /\ StatusOf(norm.error) = 422
    /\ ServerMessage(norm.error) = "username taken"
    /\ norm.out[1].description = <<"The request data is invalid. ", "username taken">>

\* C6: every failure whose status is not in the table, a failure without any
\* status included, is normalised to the Unknown category: the message built
\* from the method and the path, the raw underlying message as description;
\* it is never reported as a server error.
DefaultIsUnknown ==
    (norm.out # <<>> /\ StatusOf(norm.error) \notin ListedStatuses) =>
        /\ norm.out[1].message = DefaultMessage(norm.method, norm.endpoint)
        /\ norm.error.message # "" => norm.out[1].description = <<norm.error.message>>
        /\ norm.out[1].message # <<"Server Error">>

-----------------------------------------------------------------------------
(* Properties of the token resolution *)

IsNoAccessToken(e) ==
    e.message \in {<<NoAccessTokenMessage>>, <<PreSendNoAccessTokenMessage>>}

IsMissingCredential(e) ==
    /\ e.name = "NodeOperationError"
    /\ e.message \in {<<NoCredentialsMessage>>, <<ServerUrlRequiredMessage>>,
                       <<UsernameRequiredMessage>>, <<PasswordRequiredMessage>>}

\* the access_token of the first upstream output that carries one, in order
FirstUpstreamToken(items) ==
    LET carriers == {i \in 1..Len(items) : ItemToken(items[i]) # ""}
    IN  IF carriers = {} THEN ""
        ELSE ItemToken(items[CHOOSE i \in carriers : \A j \in carriers : i <= j])

\* both resolvers resolve to token t
ResolvesTo(t) ==
    /\ tok.reference # <<>> =>
          tok.reference[1].ok /\ tok.reference[1].value = <<t>>
    /\ (tok.declarative # <<>> /\ ~tok.isLogin) =>
          /\ tok.declarative[1].ok
          /\ tok.declarative[1].value[1].authorization = <<"Bearer ", t>>

\* C7: whenever the explicit access-token parameter is non-empty, the token
\* used for the request is that parameter, whatever the upstream data holds.
TokenPrecedence ==
    tok.accessToken # "" => ResolvesTo(tok.accessToken)

\* C8: with no explicit token, the resolved token is the first non-empty
\* access_token of the upstream outputs scanned in order, also when only a
\* later output carries one.  (Stated for the item indexes that have an
\* upstream item, which is enough to decide it.)
UpstreamScan ==
    (/\ tok.accessToken = ""
     /\ tok.itemIndex < Len(tok.items)
     /\ FirstUpstreamToken(tok.items) # "") =>
        ResolvesTo(FirstUpstreamToken(tok.items))

\* C9: for every upstream list and every item index, with an empty explicit
\* token and no upstream access_token the resolution fails with the
\* NoAccessToken error and with no other error.
MissingToken ==
    (tok.accessToken = "" /\ FirstUpstreamToken(tok.items) = "") =>
        /\ tok.reference # <<>> =>
              ~tok.reference[1].ok /\ IsNoAccessToken(tok.reference[1].error)
        /\ (tok.declarative # <<>> /\ ~tok.isLogin) =>
              ~tok.declarative[1].ok /\ IsNoAccessToken(tok.declarative[1].error)

-----------------------------------------------------------------------------
(* The credential resolver on its own *)

\* server URLs: every string of at most MaxUrlLen characters over a letter
\* and the slash
Urls == UNION {[1..k -> {"h", "/"}] : k \in 0..MaxUrlLen}

RawConfigurations ==
    [present : BOOLEAN, serverUrl : Urls, username : {"", "admin"},
     password : {"", "secret"}, otp : {"", "123456"}]

CredInit ==
    /\ PipelineIdle
    /\ tok = NoTok
    /\ norm = NoNorm
    /\ login = <<>>
    /\ batch = <<>>
    /\ pag = <<>>
    /\ exec = <<>>
    /\ \E raw \in RawConfigurations : creds = [raw |-> raw, out |-> <<>>]

GetCredentials ==
    /\ creds.out = <<>>
    /\ creds' = [creds EXCEPT !.out = <<getCredentials(creds.raw)>>]
    /\ UNCHANGED <<pc, call, options, retryCount, attempts, delays, outcomes, result,
                   tok, norm, login, batch, pag, exec>>

CredNext == GetCredentials

SpecCredentials == CredInit /\ [][CredNext]_vars

\* C11: for every raw configuration in which base_url, username or password
\* is missing or empty, getCredentials fails with the MissingCredential error
\* naming the first missing field in the order base_url, username, password;
\* otherwise it returns the settings.
ValidationOrder ==
    (creds.out # <<>> /\ creds.raw.present) =>
        LET raw == creds.raw
            out == creds.out[1]
            fails(text) == ~out.ok /\ out.error.name = "NodeOperationError"
                           /\ out.error.message = <<text>>
        IN  /\ raw.serverUrl = <<>> =>
                  fails("Server URL is required in Homebridge credentials.")
            /\ (raw.serverUrl # <<>> /\ raw.username = "") =>
                  fails("Username is required in Homebridge credentials.")
            /\ (raw.serverUrl # <<>> /\ raw.username # "" /\ raw.password = "") =>
                  fails("Password is required in Homebridge credentials.")
            /\ (raw.serverUrl # <<>> /\ raw.username # "" /\ raw.password # "") =>
                  /\ out.ok
                  /\ out.value[1].username = raw.username
                  /\ out.value[1].password = raw.password

\* server URL and username both missing: the server URL is the one named
ValidationOrderWitness ==
    /\ creds.out # <<>>
    /\ creds.raw.present
    /\ creds.raw.serverUrl = <<>>
    /\ creds.raw.username = ""
    /\ ~creds.out[1].ok
    /\ creds.out[1].error.message = <<ServerUrlRequiredMessage>>

SettingsInvariant ==
    (creds.out # <<>> /\ creds.out[1].ok) =>
        LET settings == creds.out[1].value[1]
        IN  /\ settings.serverUrl # <<>>
            /\ settings.serverUrl[Len(settings.serverUrl)] # "/"
            /\ settings.username # ""
            /\ settings.password # ""

-----------------------------------------------------------------------------
(* authenticate *)

\* the login response: absent, or an object with its access_token ("" when
\* the field is missing or empty)
LoginResponses ==
    {[present |-> FALSE, access_token |-> ""],
     [present |-> TRUE, access_token |-> ""],
     [present |-> TRUE, access_token |-> "tok123"]}

LoginStatuses == {200, 401, 403, 418, 429, 500, 503}

ConnectionSettings ==
    [serverUrl : {<<"http://host:8581">>, <<"https://hb.local">>}, username : {"admin"}, password : {"secret"},
     otp : {"", "123456"}]

\* lines 102-116
LoginOptions(credentials, otp) ==
    [method |-> "POST",
     url |-> credentials.serverUrl \o <<"/", "api/auth/login">>,
     body |-> [username |-> credentials.username, password |-> credentials.password,
               otp |-> otp],
     ignoreHttpStatusErrors |-> FALSE]

AuthenticationFailedError ==
    [name |-> "NodeApiError", message |-> <<"Authentication failed">>,
     description |-> <<"Invalid username, password, or 2FA code. Please check your credentials.">>,
     httpCode |-> <<>>, cause |-> NoBody]

NoTokenReceivedError ==
    [name |-> "NodeApiError",
     message |-> <<"Login successful but no access token received">>,
     description |-> <<"The Homebridge API did not return an access token.">>,
     httpCode |-> <<>>, cause |-> NoBody]

UndefinedResponseMessage == "Cannot read properties of undefined (reading 'access_token')"

UnknownErrorMessage == "UNKNOWN ERROR - check the detailed error for more information"

\* new NodeApiError(this.getNode(), error): what the library's constructor can
\* make of the wrapped error; it keeps the error's message, or moves it to the
\* description under a generic message
WrapApiError(message, description) ==
    {[name |-> "NodeApiError", message |-> message, description |-> description,
      httpCode |-> <<>>, cause |-> NoBody],
     [name |-> "NodeApiError", message |-> <<UnknownErrorMessage>>, description |-> message,
      httpCode |-> <<>>, cause |-> NoBody]}

\* a catch block that wraps every error alike
LoginCatchUnclassified(error) ==
    {Throw(e) : e \in WrapApiError(<<error.message>>, <<>>)}

\* the catch block, lines 129-138, on an error thrown by the dispatcher
LoginCatch(error) ==
    IF error.statusCode = 401 THEN {Throw(AuthenticationFailedError)}
    ELSE {Throw(e) : e \in WrapApiError(<<error.message>>, <<>>)}

\* lines 118-138 once the dispatcher has settled; r is what it returned or
\* threw, the value is the set of ways authenticate can end
authenticateSettled(r) ==
    IF r.ok
    THEN LET response == r.value[1]
         IN  IF ~response.present
             THEN {Throw(e) : e \in WrapApiError(<<UndefinedResponseMessage>>, <<>>)}
             ELSE IF response.access_token = ""
             THEN {Throw(e) : e \in WrapApiError(NoTokenReceivedError.message,
                                                 NoTokenReceivedError.description)}
             ELSE {Return(<<response.access_token>>)}
    ELSE LoginCatch(r.error)

\* what authenticate keeps of a dispatcher outcome o
LoginOutcome(o) ==
    [answered |-> o.answered, status |-> o.status, statusCode |-> o.error.statusCode,
     access_token |-> o.body.access_token]

LoginIdle(credentials, otp) ==
    [phase |-> "idle", credentials |-> credentials, otp |-> otp, requests |-> 0,
     request |-> <<>>, outcomes |-> <<>>, out |-> <<>>]

LoginInit ==
    /\ PipelineIdle
    /\ tok = NoTok
    /\ norm = NoNorm
    /\ creds = NoCreds
    /\ batch = <<>>
    /\ pag = <<>>
    /\ exec = <<>>
    /\ \E credentials \in ConnectionSettings, otp \in {"", "654321"} :
         login = LoginIdle(credentials, otp)

LoginFrame ==
    UNCHANGED <<pc, call, options, retryCount, attempts, delays, outcomes, result,
                tok, norm, creds, batch, pag, exec>>

\* authenticate up to its await: the one POST to /api/auth/login
Authenticate ==
    /\ login.phase = "idle"
    /\ login' = [login EXCEPT !.phase = "inflight",
                               !.requests = 1,
                               !.request = <<LoginOptions(login.credentials, login.otp)>>]
    /\ LoginFrame

\* what the dispatcher can do with the login request
LoginOutcomes ==
    {[answered |-> TRUE, status |-> st, body |-> b,
      error |-> IF Is2xx(st) THEN HttpError(0, NoBody) ELSE HttpError(st, NoBody)] : st \in LoginStatuses, b \in LoginResponses}
    \cup
    {[answered |-> FALSE, status |-> ResolvedStatus(e),
      body |-> [present |-> FALSE, access_token |-> ""], error |-> e] : e \in ThrownErrors}

\* what this.helpers.httpRequest returns or throws for such an outcome
LoginDispatch(o) ==
    IF o.answered
    THEN IF httpRequest(login.request[1], o.status, o.body).ok
         THEN Return(<<o.body>>)
         ELSE Throw(o.error)
    ELSE Throw(o.error)

\* a login that dispatches again after a transient status
LoginSettlesRetrying ==
    /\ login.phase = "inflight"
    /\ \E o \in LoginOutcomes :
         LET r == LoginDispatch(o)
         IN  IF ~r.ok /\ r.error.statusCode \in RETRY_STATUS_CODES /\ login.requests <= MAX_RETRIES
             THEN login' = [login EXCEPT !.requests = @ + 1,
                                         !.outcomes = Append(@, LoginOutcome(o))]
             ELSE \E out \in authenticateSettled(r) :
                    login' = [login EXCEPT !.phase = "done",
                                           !.outcomes = Append(@, LoginOutcome(o)),
                                           !.out = <<out>>]
    /\ LoginFrame

\* the dispatcher settles the login request and authenticate ends: lines 119-138
LoginSettles ==
    /\ login.phase = "inflight"
    /\ \E o \in LoginOutcomes :
         \E out \in authenticateSettled(LoginDispatch(o)) :
           login' = [login EXCEPT !.phase = "done",
                                  !.outcomes = Append(@, LoginOutcome(o)),
                                  !.out = <<out>>]
    /\ LoginFrame

LoginNext == Authenticate \/ LoginSettles

SpecLogin == LoginInit /\ [][LoginNext]_vars

\* C14: authenticate performs exactly one POST to /api/auth/login per call
\* and is never retried, whatever the failure is, the transient statuses
\* 429, 500, 502, 503, 504 included.
LoginSingleAttempt ==
    /\ login.phase = "idle" => login.requests = 0
    /\ login.phase # "idle" =>
          /\ login.requests = 1
          /\ login.request[1].method = "POST"
          /\ login.request[1].url = login.credentials.serverUrl \o <<"/", "api/auth/login">>
    /\ login.outcomes # <<>> =>
          /\ login.phase = "done"
          /\ Len(login.outcomes) = 1
          /\ login.out # <<>>
    /\ attempts = 0
    /\ delays = <<>>

\* the login failed with 503 and was not tried again
LoginSingleAttemptWitness ==
    /\ login.phase = "done"
    /\ Len(login.outcomes) = 1
    /\ login.outcomes[1].answered
    /\ login.outcomes[1].status = 503
    /\ login.requests = 1
    /\ ~login.out[1].ok

LoginFailedWith(text) ==
    /\ ~login.out[1].ok
    /\ login.out[1].error.name = "NodeApiError"
    /\ \/ login.out[1].error.message = <<text>>
       \/ login.out[1].error.description = <<text>>

-----------------------------------------------------------------------------
(* executeBatchOperations *)

MaxOps == 3

ValidRaw ==
    [present |-> TRUE, serverUrl |-> <<"http://host:8581">>, username |-> "admin",
     password |-> "secret", otp |-> ""]

NoPasswordRaw == [ValidRaw EXCEPT !.password = ""]

UpstreamItem == [isArray |-> FALSE, access_token |-> "abc", elems |-> <<>>]

\* the execution contexts of a batch: the connection settings, the accessToken
\* parameter and the input items of the node
BatchContexts ==
    {[raw |-> ValidRaw, accessToken |-> "xyz", items |-> <<>>],
     [raw |-> ValidRaw, accessToken |-> "", items |-> <<UpstreamItem>>],
     [raw |-> ValidRaw, accessToken |-> "", items |-> <<>>],
     [raw |-> NoPasswordRaw, accessToken |-> "xyz", items |-> <<>>]}

Operations == UNION {[1..n -> Requests] : n \in 0..MaxOps}

\* what the hub does with the requests of a batch
BatchStatuses == {200}
BatchErrors ==
    {[statusCode |-> s, response |-> NoResponse, message |-> "ECONNREFUSED", error |-> NoBody] :
        s \in {404, 503}}

Snapshot ==
    [pc |-> pc, call |-> call, attempts |-> attempts, delays |-> delays,
     outcomes |-> outcomes, result |-> result]

\* lines 519-522 and 524-527
BatchEntry(r) ==
    IF r.kind = "return"
    THEN [success |-> TRUE, data |-> r.body, error |-> <<>>]
    ELSE [success |-> FALSE, data |-> NoBody, error |-> r.error.message]

BatchIdle(context, operations) ==
    [phase |-> "idle", context |-> context, operations |-> operations, i |-> 0,
     dispatched |-> 0, results |-> <<>>, trace |-> <<>>, out |-> <<>>]

BatchInit ==
    /\ PipelineIdle
    /\ tok = NoTok
    /\ norm = NoNorm
    /\ creds = NoCreds
    /\ login = <<>>
    /\ pag = <<>>
    /\ exec = <<>>
    /\ \E context \in BatchContexts, operations \in Operations :
         batch = BatchIdle(context, operations)

BatchFrame == UNCHANGED <<tok, norm, creds, login, pag, exec>>

\* the pipeline once its caller has taken the result
ReleasePipeline ==
    /\ pc' = "idle"
    /\ call' = NoCall
    /\ options' = NoOptions
    /\ delays' = <<>>
    /\ outcomes' = <<>>
    /\ result' = NoResult
    /\ UNCHANGED <<retryCount, attempts>>

\* line 506
ExecuteBatchOperations ==
    /\ batch.phase = "idle"
    /\ batch' = [batch EXCEPT !.phase = "running"]
    /\ UNCHANGED <<pc, call, options, retryCount, attempts, delays, outcomes, result>>
    /\ BatchFrame

\* lines 508-518: operation i is handed to homebridgeApiRequest with i as its
\* item index
BatchDispatch ==
    /\ batch.phase = "running"
    /\ pc = "idle"
    /\ batch.i < Len(batch.operations)
    /\ StartCall(batch.context.raw, batch.context.accessToken, batch.context.items,
                 batch.i, batch.operations[batch.i + 1])
    /\ batch' = [batch EXCEPT !.dispatched = @ + 1]
    /\ BatchFrame

BatchHubAnswers == batch.phase = "running" /\ AnswerFrom(BatchStatuses, {EmptyObject})

BatchRequestThrows == batch.phase = "running" /\ ThrowFrom(BatchErrors)

BatchBackoffElapses == batch.phase = "running" /\ BackoffElapses

\* a batch that ends at its first failing operation
BatchCollectAborting ==
    /\ batch.phase = "running"
    /\ pc = "done"
    /\ batch' = [batch EXCEPT
                   !.results = IF result.kind = "return" THEN Append(@, BatchEntry(result))
                               ELSE @,
                   !.trace = Append(@, Snapshot),
                   !.i = IF result.kind = "return" THEN @ + 1 ELSE Len(batch.operations)]
    /\ ReleasePipeline
    /\ BatchFrame

\* a batch that lets a failure raised before any request leave the function
BatchCollectThrowing ==
    /\ batch.phase = "running"
    /\ pc = "done"
    /\ IF result.kind = "throw" /\ attempts = 0
       THEN batch' = [batch EXCEPT !.phase = "threw",
                                  !.trace = Append(@, Snapshot),
                                  !.out = <<result.error>>]
       ELSE batch' = [batch EXCEPT !.results = Append(@, BatchEntry(result)),
                                  !.trace = Append(@, Snapshot),
                                  !.i = @ + 1]
    /\ ReleasePipeline
    /\ BatchFrame

\* a batch that does not wait for the retries of its operation
BatchCollectEager ==
    /\ batch.phase = "running"
    /\ pc \in {"backoff", "done"}
    /\ batch' = [batch EXCEPT !.results = Append(@, BatchEntry(result)),
                              !.trace = Append(@, Snapshot),
                              !.i = @ + 1]
    /\ ReleasePipeline
    /\ BatchFrame

\* lines 519-529: the awaited call has returned or thrown; its entry is
\* pushed and the loop moves on
BatchCollect ==
    /\ batch.phase = "running"
    /\ pc = "done"
    /\ batch' = [batch EXCEPT !.results = Append(@, BatchEntry(result)),
                              !.trace = Append(@, Snapshot),
                              !.i = @ + 1]
    /\ ReleasePipeline
    /\ BatchFrame

\* line 531
BatchReturn ==
    /\ batch.phase = "running"
    /\ pc = "idle"
    /\ batch.i >= Len(batch.operations)
    /\ batch' = [batch EXCEPT !.phase = "returned", !.out = <<batch.results>>]
    /\ UNCHANGED <<pc, call, options, retryCount, attempts, delays, outcomes, result>>
    /\ BatchFrame

BatchNext ==
    \/ ExecuteBatchOperations
    \/ BatchDispatch
    \/ BatchHubAnswers
    \/ BatchRequestThrows
    \/ BatchBackoffElapses
    \/ BatchCollect
    \/ BatchReturn

SpecBatch == BatchInit /\ [][BatchNext]_vars

\* entry k of the results describes what the pipeline did with operation k
EntryDescribes(entry, operation, k, snapshot) ==
    /\ snapshot.call.itemIndex = k - 1
    /\ snapshot.call.method = operation.method
    /\ snapshot.call.endpoint = operation.endpoint
    /\ snapshot.result.kind \in {"return", "throw"}
    /\ snapshot.result.kind = "return" =>
          entry = [success |-> TRUE, data |-> snapshot.result.body, error |-> <<>>]
    /\ snapshot.result.kind = "throw" =>
          entry = [success |-> FALSE, data |-> NoBody,
                   error |-> snapshot.result.error.message]

\* C16: for every sequence of N operations and every pattern of successes
\* and failures, executeBatchOperations returns exactly N entries, entry i
\* describing operation i (success with the data, or failure with the error
\* message); a failure never ends the batch or changes another entry.
BatchIsolation ==
    /\ Len(batch.results) = Len(batch.trace)
    /\ Len(batch.results) <= Len(batch.operations)
    /\ \A k \in 1..Len(batch.results) :
          k <= Len(batch.trace) /\ k <= Len(batch.operations) =>
            EntryDescribes(batch.results[k], batch.operations[k], k, batch.trace[k])
    /\ batch.phase = "returned" =>
          /\ batch.out = <<batch.results>>
          /\ Len(batch.out[1]) = Len(batch.operations)

\* three operations, the second failed, the others succeeded
BatchIsolationWitness ==
    /\ batch.phase = "returned"
    /\ Len(batch.out[1]) = 3
    /\ batch.out[1][1].success
    /\ ~batch.out[1][2].success
    /\ batch.out[1][3].success

\* the pipeline ran operation k to its end: every failed attempt but the last
\* was a transient one followed by its backoff delay, and the last attempt
\* either succeeded, or failed for good, or was the last one allowed
FinishedCompletely(snapshot) ==
    /\ snapshot.pc = "done"
    /\ snapshot.result.kind \in {"return", "throw"}
    /\ Len(snapshot.outcomes) = snapshot.attempts
    /\ snapshot.attempts > 0 => Len(snapshot.delays) = snapshot.attempts - 1
    /\ \A a \in 1..Len(snapshot.outcomes) :
          a < Len(snapshot.outcomes) =>
            snapshot.outcomes[a].threw /\ snapshot.outcomes[a].status \in RETRY_STATUS_CODES
    /\ (/\ snapshot.attempts > 0
        /\ snapshot.outcomes[snapshot.attempts].threw
        /\ snapshot.outcomes[snapshot.attempts].status \in RETRY_STATUS_CODES)
          => snapshot.attempts = MAX_RETRIES + 1

\* C17: within one executeBatchOperations call at most one request is in
\* flight, and the first attempt of operation i+1 is dispatched only after
\* operation i has finished completely, its retries and backoff delays
\* included.
BatchSequential ==
    /\ batch.dispatched \in {Len(batch.results), Len(batch.results) + 1}
    /\ pc \in {"inflight", "backoff", "done"} =>
          /\ batch.dispatched = Len(batch.results) + 1
          /\ call.itemIndex = Len(batch.results)
    /\ pc = "idle" => batch.dispatched = Len(batch.results)
    /\ \A k \in 1..Len(batch.trace) : FinishedCompletely(batch.trace[k])

\* the second operation is in flight after the first one used all its retries
BatchSequentialWitness ==
    /\ pc = "inflight"
    /\ attempts = 1
    /\ batch.dispatched = 2
    /\ Len(batch.trace) = 1
    /\ batch.trace[1].attempts = MAX_RETRIES + 1
    /\ Len(batch.trace[1].delays) = MAX_RETRIES

-----------------------------------------------------------------------------
(* handlePaginatedRequest *)

MaxPages == 3

\* line 558
pageSize == 100

\* a response that is an array of count items, or a single object
ArrayBody(count) == [present |-> TRUE, message |-> "", isArray |-> TRUE, count |-> count]
ObjectBody == [present |-> TRUE, message |-> "", isArray |-> FALSE, count |-> 0]

PageBodies == {ArrayBody(n) : n \in {0, 40, 100, 120}} \cup {ObjectBody}

Limits == {0 - 1, 0, 50, 100, 150, 250}

CallerQs == {NoQs, [present |-> TRUE, page |-> 7, limit |-> 10]}

\* line 566: { ...qs, page, limit: pageSize }
PageQs(qs, page) == [present |-> TRUE, page |-> page, limit |-> pageSize]

\* line 570: the number of items of Array.isArray(response) ? response : [response]
ItemCount(response) == IF response.isArray THEN response.count ELSE 1

\* a list of items is kept as its runs: count items of the answer to page
RECURSIVE Total(_)
Total(segments) ==
    IF segments = <<>> THEN 0 ELSE Head(segments).count + Total(Tail(segments))

\* allItems.slice(0, n)
RECURSIVE Slice(_, _)
Slice(segments, n) ==
    IF segments = <<>> \/ n <= 0 THEN <<>>
    ELSE IF Head(segments).count >= n THEN <<[Head(segments) EXCEPT !.count = n]>>
    ELSE <<Head(segments)>> \o Slice(Tail(segments), n - Head(segments).count)

\* the limit test with a limit of 200 items when none is given
LimitReachedDefaulted(length, limit) ==
    length >= (IF limit > 0 THEN limit ELSE 200)

\* the limit test that is never met
LimitReachedNever(length, limit) == FALSE

\* the limit test with the wrong comparison
LimitReachedStrict(length, limit) == limit > 0 /\ length > limit

\* line 573
LimitReached(length, limit) == limit > 0 /\ length >= limit

\* the short-page test with the wrong comparison
LastPageAtMost(count) == count <= pageSize

\* line 578
LastPage(count) == count < pageSize

PagIdle(context, qs, limit) ==
    [phase |-> "idle", context |-> context, qs |-> qs, limit |-> limit, page |-> 0,
     allItems |-> <<>>, requested |-> <<>>, sizes |-> <<>>, out |-> <<>>]

PagInit ==
    /\ PipelineIdle
    /\ tok = NoTok
    /\ norm = NoNorm
    /\ creds = NoCreds
    /\ login = <<>>
    /\ batch = <<>>
    /\ exec = <<>>
    /\ \E context \in BatchContexts, qs \in CallerQs, limit \in Limits :
         pag = PagIdle(context, qs, limit)

PagFrame == UNCHANGED <<tok, norm, creds, login, batch, exec>>

\* lines 556-558
HandlePaginatedRequest ==
    /\ pag.phase = "idle"
    /\ pag' = [pag EXCEPT !.phase = "running", !.page = 1]
    /\ UNCHANGED <<pc, call, options, retryCount, attempts, delays, outcomes, result>>
    /\ PagFrame

\* lines 561-568: the request for the current page
PagDispatch ==
    /\ pag.phase = "running"
    /\ pc = "idle"
    /\ pag.page <= MaxPages
    /\ StartCall(pag.context.raw, pag.context.accessToken, pag.context.items, 0,
                 [method |-> "GET", endpoint |-> <<"/", "api/accessories">>,
                  qs |-> PageQs(pag.qs, pag.page)])
    /\ pag' = [pag EXCEPT !.requested = Append(@, PageQs(pag.qs, pag.page))]
    /\ PagFrame

PagHubAnswers == pag.phase = "running" /\ AnswerFrom({200}, PageBodies)

PagRequestThrows == pag.phase = "running" /\ ThrowFrom(BatchErrors)

PagBackoffElapses == pag.phase = "running" /\ BackoffElapses

\* lines 570-585 once the awaited call has returned, or its error leaving
\* handlePaginatedRequest
PagCollect ==
    /\ pag.phase = "running"
    /\ pc = "done"
    /\ IF result.kind = "throw"
       THEN pag' = [pag EXCEPT !.phase = "threw", !.out = <<result.error>>]
       ELSE LET count == ItemCount(result.body)
                allItems == Append(pag.allItems, [page |-> options.qs.page, count |-> count])
            IN  IF LimitReached(Total(allItems), pag.limit)
                THEN pag' = [pag EXCEPT !.phase = "returned",
                                        !.sizes = Append(@, count),
                                        !.allItems = Slice(allItems, pag.limit),
                                        !.out = <<Slice(allItems, pag.limit)>>]
                ELSE IF LastPage(count)
                THEN pag' = [pag EXCEPT !.phase = "returned",
                                        !.sizes = Append(@, count),
                                        !.allItems = allItems,
                                        !.out = <<allItems>>]
                ELSE pag' = [pag EXCEPT !.sizes = Append(@, count),
                                        !.allItems = allItems,
                                        !.page = @ + 1]
    /\ ReleasePipeline
    /\ PagFrame

PagNext ==
    \/ HandlePaginatedRequest
    \/ PagDispatch
    \/ PagHubAnswers
    \/ PagRequestThrows
    \/ PagBackoffElapses
    \/ PagCollect

SpecPagination == PagInit /\ [][PagNext]_vars

RECURSIVE Sum(_)
Sum(sizes) == IF sizes = <<>> THEN 0 ELSE Head(sizes) + Sum(Tail(sizes))

\* the pages were requested as 1, 2, 3, ... with page size 100, one at a time
PagesInOrder ==
    /\ \A k \in 1..Len(pag.requested) :
          pag.requested[k] = [present |-> TRUE, page |-> k, limit |-> 100]
    /\ Len(pag.requested) \in {Len(pag.sizes), Len(pag.sizes) + 1}
    /\ pag.phase = "returned" => Len(pag.requested) = Len(pag.sizes)

\* C18: with no limit, handlePaginatedRequest requests page 1, 2, 3, ... in
\* order with page size 100, concatenates the pages in order, and stops at
\* the first page holding fewer than 100 items without requesting a further
\* page.
PaginationNaturalEnd ==
    pag.limit <= 0 =>
      /\ PagesInOrder
      /\ Len(pag.allItems) = Len(pag.sizes)
      /\ \A k \in 1..Len(pag.sizes) :
            k <= Len(pag.allItems) =>
              pag.allItems[k] = [page |-> k, count |-> pag.sizes[k]]
      /\ \A k \in 1..Len(pag.sizes) :
            (k < Len(pag.sizes) \/ pag.phase = "running") => pag.sizes[k] >= 100
      /\ pag.phase = "returned" =>
            /\ pag.sizes # <<>>
            /\ pag.sizes[Len(pag.sizes)] < 100
            /\ pag.out = <<pag.allItems>>
            /\ Total(pag.out[1]) = Sum(pag.sizes)

\* pages of 100, 100 and 40 items gave 240 items after exactly 3 requests
PaginationNaturalEndWitness ==
    /\ pag.limit = 0
    /\ pag.phase = "returned"
    /\ pag.sizes = <<100, 100, 40>>
    /\ Len(pag.requested) = 3
    /\ Total(pag.out[1]) = 240

\* C19: with a limit L > 0, handlePaginatedRequest stops as soon as the
\* accumulated item count reaches L and returns exactly the first L
\* accumulated items, never more than L whatever the page sizes are.
PaginationLimit ==
    pag.limit > 0 =>
      /\ PagesInOrder
      /\ pag.phase = "running" => Sum(pag.sizes) < pag.limit
      /\ pag.phase = "returned" =>
            LET n == Len(pag.sizes)
                items == pag.out[1]
            IN  /\ n > 0
                /\ Sum(SubSeq(pag.sizes, 1, n - 1)) < pag.limit
                /\ Total(items) <= pag.limit
                /\ Total(items) = IF Sum(pag.sizes) >= pag.limit THEN pag.limit
                                  ELSE Sum(pag.sizes)
                /\ Len(items) = n
                /\ \A k \in 1..n :
                      k <= Len(items) =>
                        /\ items[k].page = k
                        /\ k < n => items[k].count = pag.sizes[k]
                        /\ items[k].count <= pag.sizes[k]

\* limit 150 and pages of 100 and 100 items gave exactly 150 items after
\* page 2
PaginationLimitWitness ==
    /\ pag.limit = 150
    /\ pag.phase = "returned"
    /\ pag.sizes = <<100, 100>>
    /\ Len(pag.requested) = 2
    /\ Total(pag.out[1]) = 150

-----------------------------------------------------------------------------
(* HomebridgeImproved.execute *)

ExpressionError == PlainError("Can't get data for expression")

\* this.getNodeParameter('operation', i): the value of the parameter on item
\* i, or the error of an expression that cannot be evaluated on that item
OperationParameters == {Return(<<"list">>), Return(<<"noAuth">>), Throw(ExpressionError)}

\* an input item: its json, and what the operation parameter resolves to on it
InputItems ==
    [json : {UpstreamItem, [isArray |-> FALSE, access_token |-> "", elems |-> <<>>]},
     operation : OperationParameters]

ExecInputs == UNION {[1..n -> InputItems] : n \in 0..MaxItems}

RECURSIVE JsonOf(_)
JsonOf(items) == IF items = <<>> THEN <<>> ELSE <<Head(items).json>> \o JsonOf(Tail(items))

\* the if/else chain, lines 182-557: the request of a resource and operation,
\* none when no branch matches
RequestFor(resource, operation) ==
    IF resource = "auth" /\ operation = "noAuth"
    THEN <<[method |-> "POST", endpoint |-> <<"/", "api/auth/noauth">>, qs |-> NoQs]>>
    ELSE IF resource = "accessories" /\ operation = "list"
    THEN <<[method |-> "GET", endpoint |-> <<"/", "api/accessories">>, qs |-> NoQs]>>
    ELSE <<>>

\* lines 563-576
SuccessEntry(resource, operation, data, i) ==
    [json |-> [data |-> data, error |-> <<>>,
               _metadata |-> [resource |-> resource, operation |-> operation,
                              success |-> TRUE]],
     pairedItem |-> i]

\* lines 583-594
FailureEntry(resource, operation, error, i) ==
    [json |-> [data |-> NoBody, error |-> error.message,
               _metadata |-> [resource |-> resource, operation |-> operation,
                              success |-> FALSE]],
     pairedItem |-> i]

ExecIdle(accessToken, items, resource, continueOnFail) ==
    [phase |-> "idle", accessToken |-> accessToken, items |-> items,
     resource |-> resource, continueOnFail |-> continueOnFail, i |-> 0,
     returnData |-> <<>>, trace |-> <<>>, out |-> <<>>]

ExecInit ==
    /\ PipelineIdle
    /\ tok = NoTok
    /\ norm = NoNorm
    /\ creds = NoCreds
    /\ login = <<>>
    /\ batch = <<>>
    /\ pag = <<>>
    /\ \E accessToken \in {"", "xyz"}, items \in ExecInputs,
          resource \in {"auth", "accessories"}, continueOnFail \in BOOLEAN :
         exec = ExecIdle(accessToken, items, resource, continueOnFail)

ExecFrame == UNCHANGED <<tok, norm, creds, login, batch, pag>>

\* lines 168-170
Execute ==
    /\ exec.phase = "idle"
    /\ exec' = [exec EXCEPT !.phase = "running"]
    /\ UNCHANGED <<pc, call, options, retryCount, attempts, delays, outcomes, result>>
    /\ ExecFrame

\* a request of the item in hand has been dispatched and the call is over
Dispatched == pc = "done" /\ attempts > 0

\* the catch block, lines 581-600, for the error of item i: the value of exec
\* after it
ExecCatch(error) ==
    LET operation == exec.items[exec.i + 1].operation
    IN  IF exec.continueOnFail
        THEN IF ~operation.ok
             THEN [exec EXCEPT !.phase = "threw",
                               !.trace = Append(@, [failed |-> TRUE, error |-> error, dispatched |-> Dispatched]),
                               !.out = <<operation.error>>]
             ELSE [exec EXCEPT
                     !.returnData = Append(@, FailureEntry(exec.resource, operation.value[1],
                                                           error, exec.i)),
                     !.trace = Append(@, [failed |-> TRUE, error |-> error, dispatched |-> Dispatched]),
                     !.i = @ + 1]
        ELSE [exec EXCEPT !.phase = "threw",
                          !.trace = Append(@, [failed |-> TRUE, error |-> error, dispatched |-> Dispatched]),
                          !.out = <<error>>]

\* lines 173-556 up to the await of item i: the operation parameter is read
\* and the request of the matching branch is handed to homebridgeApiRequest
ExecDispatch ==
    /\ exec.phase = "running"
    /\ pc = "idle"
    /\ exec.i < Len(exec.items)
    /\ exec.items[exec.i + 1].operation.ok
    /\ RequestFor(exec.resource, exec.items[exec.i + 1].operation.value[1]) # <<>>
    /\ StartCall(ValidRaw, exec.accessToken, JsonOf(exec.items), exec.i,
                 RequestFor(exec.resource, exec.items[exec.i + 1].operation.value[1])[1])
    /\ UNCHANGED exec
    /\ ExecFrame

\* item i when no branch matches its resource and operation: no request, and
\* lines 559-579 with responseData undefined
ExecNoBranch ==
    /\ exec.phase = "running"
    /\ pc = "idle"
    /\ exec.i < Len(exec.items)
    /\ exec.items[exec.i + 1].operation.ok
    /\ RequestFor(exec.resource, exec.items[exec.i + 1].operation.value[1]) = <<>>
    /\ exec' = [exec EXCEPT
                  !.returnData = Append(@, SuccessEntry(exec.resource,
                                            exec.items[exec.i + 1].operation.value[1],
                                            NoBody, exec.i)),
                  !.trace = Append(@, [failed |-> FALSE, error |-> NoError, dispatched |-> FALSE]),
                  !.i = @ + 1]
    /\ UNCHANGED <<pc, call, options, retryCount, attempts, delays, outcomes, result>>
    /\ ExecFrame

\* item i when its operation parameter cannot be read: line 174 throws into
\* the catch block
ExecParameterThrows ==
    /\ exec.phase = "running"
    /\ pc = "idle"
    /\ exec.i < Len(exec.items)
    /\ ~exec.items[exec.i + 1].operation.ok
    /\ exec' = ExecCatch(exec.items[exec.i + 1].operation.error)
    /\ UNCHANGED <<pc, call, options, retryCount, attempts, delays, outcomes, result>>
    /\ ExecFrame

ExecHubAnswers == exec.phase = "running" /\ AnswerFrom({200}, {EmptyObject})

ExecRequestThrows == exec.phase = "running" /\ ThrowFrom(BatchErrors)

ExecBackoffElapses == exec.phase = "running" /\ BackoffElapses

\* the awaited call of item i has returned (lines 559-579) or thrown (lines
\* 581-600)
ExecCollect ==
    /\ exec.phase = "running"
    /\ pc = "done"
    /\ IF result.kind = "return"
       THEN exec' = [exec EXCEPT
                       !.returnData = Append(@, SuccessEntry(exec.resource,
                                                 exec.items[exec.i + 1].operation.value[1],
                                                 result.body, exec.i)),
                       !.trace = Append(@, [failed |-> FALSE, error |-> NoError, dispatched |-> Dispatched]),
                       !.i = @ + 1]
       ELSE exec' = ExecCatch(result.error)
    /\ ReleasePipeline
    /\ ExecFrame

\* line 602
ExecReturn ==
    /\ exec.phase = "running"
    /\ pc = "idle"
    /\ exec.i >= Len(exec.items)
    /\ exec' = [exec EXCEPT !.phase = "returned", !.out = <<exec.returnData>>]
    /\ UNCHANGED <<pc, call, options, retryCount, attempts, delays, outcomes, result>>
    /\ ExecFrame

ExecNext ==
    \/ Execute
    \/ ExecDispatch
    \/ ExecNoBranch
    \/ ExecParameterThrows
    \/ ExecHubAnswers
    \/ ExecRequestThrows
    \/ ExecBackoffElapses
    \/ ExecCollect
    \/ ExecReturn

SpecExecute == ExecInit /\ [][ExecNext]_vars

\* C20: by default the first failing item ends execute with its error and no
\* output; with continue-on-failure a failing item yields one entry holding
\* the error message and success false, and the next item is processed, so
\* that the output has exactly one entry per input item, in input order.
FailurePolicy ==
    /\ ~exec.continueOnFail =>
          /\ \A k \in 1..Len(exec.trace) :
                exec.trace[k].failed =>
                  /\ k = Len(exec.trace)
                  /\ exec.phase = "threw"
                  /\ exec.out = <<exec.trace[k].error>>
          /\ exec.phase = "threw" =>
                Len(exec.trace) > 0 /\ exec.trace[Len(exec.trace)].failed
    /\ exec.continueOnFail =>
          /\ exec.phase # "threw"
          /\ Len(exec.returnData) = Len(exec.trace)
          /\ \A k \in 1..Len(exec.returnData) :
                k <= Len(exec.trace) =>
                  /\ exec.returnData[k].pairedItem = k - 1
                  /\ exec.returnData[k].json._metadata.success = ~exec.trace[k].failed
                  /\ exec.trace[k].failed =>
                        exec.returnData[k].json.error = exec.trace[k].error.message
          /\ exec.phase = "returned" =>
                /\ exec.out = <<exec.returnData>>
                /\ Len(exec.out[1]) = Len(exec.items)

-----------------------------------------------------------------------------
(* the requests homebridgeApiRequest dispatches *)

\* the path of a request: the endpoint, with a slash before it if and only
\* if it had none
PathOf(endpoint) ==
    IF endpoint # <<>> /\ endpoint[1] = "/" THEN endpoint ELSE <<"/">> \o endpoint

\* the token of the item of the call: the parameter, else the item's own
TokenOfItem ==
    IF call.accessToken # "" THEN call.accessToken
    ELSE ItemToken(call.items[call.itemIndex + 1])

\* C21: every request dispatched by homebridgeApiRequest goes to the
\* returned base URL followed by the path, the path being the endpoint with
\* a leading slash added if and only if it lacked one, and carries
\* Authorization: Bearer t where t is exactly the token resolved for the item.
RequestConstruction ==
    attempts > 0 /\ pc # "idle" =>
      /\ getCredentials(call.raw).ok
      /\ options.method = call.method
      /\ options.url = getCredentials(call.raw).value[1].serverUrl \o PathOf(call.endpoint)
      /\ options.endpoint = PathOf(call.endpoint)
      /\ options.endpoint[1] = "/"
      /\ Len(options.endpoint) = 2
      /\ TokenOfItem # ""
      /\ options.authorization = <<"Bearer ", TokenOfItem>>

\* GET http://host:8581/api/accessories is in flight with the token of the
\* upstream item, and a request whose endpoint had no slash got one
RequestConstructionWitness ==
    /\ pc = "inflight"
    /\ call.accessToken = ""
    /\ call.endpoint = <<"/", "api/accessories">>
    /\ options.method = "GET"
    /\ options.url = <<"http://host:8581", "/", "api/accessories">>
    /\ options.authorization = <<"Bearer ", "abc">>

\* C22: the node renews the token by itself: when an authenticated request
\* is rejected with 401, a new login call is made and the operation is
\* carried out with the fresh token.
AutomaticRenewal ==
    (pc = "done" /\ outcomes # <<>> /\ Last(outcomes).status = 401) =>
      /\ login # <<>>
      /\ result.kind = "return"

\* C23: in every top-level call of homebridgeApiRequest handleApiError runs
\* at most once and only after the retry loop has ended (retries exhausted or
\* status not retryable); no attempt is dispatched after it, and a call that
\* succeeds is never normalised.
NormalizeOnceLast ==
    /\ pc \in {"idle", "inflight", "backoff"} => result = NoResult
    /\ (pc = "done" /\ result.kind = "throw" /\ attempts > 0) =>
          /\ Len(outcomes) = attempts
          /\ Last(outcomes).threw
          /\ \/ Last(outcomes).status \notin RETRY_STATUS_CODES
             \/ Len(outcomes) = MAX_RETRIES + 1
          /\ result.error.name = "NodeApiError"
          /\ \A k \in 1..Len(outcomes) :
                k < Len(outcomes) =>
                  outcomes[k].threw /\ outcomes[k].status \in RETRY_STATUS_CODES
    /\ (pc = "done" /\ result.kind = "return") =>
          /\ ~Last(outcomes).threw
          /\ result.error = NoError

\* the error was normalised after the fourth attempt failed with 503
NormalizeOnceLastWitness ==
    /\ pc = "done"
    /\ result.kind = "throw"
    /\ Len(outcomes) = MAX_RETRIES + 1
    /\ \A k \in 1..Len(outcomes) : outcomes[k].threw /\ outcomes[k].status = 503
    /\ result.error.httpCode = <<"5", "0", "3">>

\* C26: an attempt that fails with an error without a status is followed by
\* no further attempt and no backoff delay, and that error is the one
\* rethrown.
NoStatusNotRetried ==
    \A k \in 1..Len(outcomes) :
      (outcomes[k].threw /\ outcomes[k].status = 0) =>
        /\ k = Len(outcomes)
        /\ pc = "done"
        /\ attempts = k
        /\ Len(delays) = k - 1
        /\ result =
             Thrown(handleApiError([statusCode |-> 0, response |-> NoResponse,
                                    message |-> "ECONNREFUSED", error |-> NoBody],
                                   options.endpoint, options.method))

\* a first attempt failed without a status and the call is over
NoStatusNotRetriedWitness ==
    /\ pc = "done"
    /\ Len(outcomes) = 1
    /\ outcomes[1].threw
    /\ outcomes[1].status = 0
    /\ delays = <<>>
    /\ result.kind = "throw"

\* the last attempt of a finished call failed with a transient status
EndedTransient(snapshot) ==
    /\ snapshot.outcomes # <<>>
    /\ Last(snapshot.outcomes).threw
    /\ Last(snapshot.outcomes).status \in RETRY_STATUS_CODES

\* C24: every top-level call of homebridgeApiRequest starts with a retry
\* count of 0 whatever happened in earlier calls: each operation of a batch
\* has its own budget of MAX_RETRIES retries, which failures of earlier
\* operations neither shorten nor lengthen.
FreshRetryState ==
    /\ (pc = "inflight" /\ outcomes = <<>>) =>
          retryCount = 0 /\ attempts = 1 /\ delays = <<>>
    /\ pc \in {"inflight", "backoff"} =>
          /\ retryCount = Len(outcomes) - (IF pc = "backoff" THEN 1 ELSE 0)
          /\ attempts = retryCount + 1
          /\ retryCount <= MAX_RETRIES
    /\ \A k \in 1..Len(batch.trace) :
          /\ batch.trace[k].attempts <= MAX_RETRIES + 1
          /\ EndedTransient(batch.trace[k]) =>
                /\ batch.trace[k].attempts = MAX_RETRIES + 1
                /\ batch.trace[k].delays = <<1000, 2000, 4000>>

\* two operations in a row used all their retries, and a third one starts
\* from zero
FreshRetryStateWitness ==
    /\ Len(batch.trace) = 2
    /\ EndedTransient(batch.trace[1])
    /\ batch.trace[1].attempts = MAX_RETRIES + 1
    /\ EndedTransient(batch.trace[2])
    /\ batch.trace[2].attempts = MAX_RETRIES + 1
    /\ pc = "inflight"
    /\ outcomes = <<>>
    /\ retryCount = 0

\* every page answered so far held exactly 100 items
FullPagesOnly ==
    /\ pag.phase \in {"running", "returned"}
    /\ \A k \in 1..Len(pag.sizes) : pag.sizes[k] = 100

\* C25: with no limit and a server that answers every page with exactly 100
\* items, handlePaginatedRequest never returns and keeps requesting pages
\* 1, 2, 3, ... with a strictly increasing page number; there is no
\* maximum-page ceiling.
UnboundedPagination ==
    (pag.limit = 0 /\ FullPagesOnly) =>
      /\ pag.phase = "running"
      /\ pag.page = Len(pag.sizes) + 1
      /\ Total(pag.allItems) = 100 * Len(pag.sizes)
      /\ \A k \in 1..Len(pag.requested) : pag.requested[k].page = k
      /\ (pc = "idle" /\ pag.page <= MaxPages) => ENABLED PagDispatch

\* after as many full pages as explored the helper is still running and is
\* about to ask for the next page
UnboundedPaginationWitness ==
    /\ pag.limit = 0
    /\ pag.phase = "running"
    /\ Len(pag.sizes) = MaxPages
    /\ \A k \in 1..Len(pag.sizes) : pag.sizes[k] = 100
    /\ pag.page = MaxPages + 1

\* the least number of pages of 100 items that hold n items
PagesFor(n) == (n + 99) \div 100

\* C29: with a limit L > 0 and every page request answered,
\* handlePaginatedRequest ends after at most ceil(L / 100) page requests,
\* whatever the page sizes are.
BoundedUnderLimit ==
    (pag.limit > 0 /\ pag.phase # "idle") =>
      /\ Len(pag.requested) <= PagesFor(pag.limit)
      /\ pag.page <= PagesFor(pag.limit)
      /\ (Len(pag.sizes) = PagesFor(pag.limit) /\ pag.phase # "threw") =>
            pag.phase = "returned"

\* limit 150: the helper returned after its second page request
BoundedUnderLimitWitness ==
    /\ pag.limit = 150
    /\ pag.phase = "returned"
    /\ Len(pag.requested) = 2
    /\ pag.sizes = <<100, 40>>

\* what homebridgeApiRequest throws for operation k of the batch before any
\* request is built: nothing, or the error of the credentials or of the token
PreflightOf(k) ==
    Prepare(batch.context.raw, batch.context.accessToken, batch.context.items, k - 1,
            batch.operations[k])

\* C27: executeBatchOperations never throws: it always returns a result
\* list, also when an operation fails before any network call (missing
\* credential, no access token, or an index without an upstream item); such
\* an operation is recorded as a failure with its error and no request is
\* dispatched for it.
BatchNeverThrows ==
    /\ batch.phase \in {"idle", "running", "returned"}
    /\ Len(batch.results) = Len(batch.trace)
    /\ \A k \in 1..Len(batch.trace) :
          (k <= Len(batch.results) /\ k <= Len(batch.operations) /\ ~PreflightOf(k).ok) =>
            /\ batch.trace[k].attempts = 0
            /\ batch.trace[k].outcomes = <<>>
            /\ batch.results[k] = [success |-> FALSE, data |-> NoBody,
                                    error |-> PreflightOf(k).error.message]
    /\ (batch.phase = "running" /\ pc = "idle" /\ batch.i >= Len(batch.operations)) =>
          ENABLED BatchReturn
    /\ batch.phase = "returned" => Len(batch.out[1]) = Len(batch.operations)

\* a batch of three operations over one upstream item returned: the first
\* operation was dispatched, the others have no item and were recorded as
\* failures without a request
BatchNeverThrowsWitness ==
    /\ batch.phase = "returned"
    /\ batch.context.accessToken = ""
    /\ Len(batch.context.items) = 1
    /\ Len(batch.out[1]) = 3
    /\ batch.trace[1].attempts > 0
    /\ batch.trace[2].attempts = 0
    /\ batch.out[1][2] = [success |-> FALSE, data |-> NoBody,
                           error |-> <<UndefinedItemMessage>>]
    /\ ~batch.out[1][3].success

\* C28: an output entry with _metadata.success = true is emitted for item i
\* only if an HTTP request for item i was dispatched and completed, for every
\* resource and operation, those that match no branch included.
SuccessImpliesRequest ==
    \A k \in 1..Len(exec.returnData) :
      (k <= Len(exec.trace) /\ exec.returnData[k].json._metadata.success) =>
        exec.trace[k].dispatched

\* C30: the operations that run before authentication (auth/noAuth among
\* them) are executed when no access token is available: their request is
\* dispatched and not rejected for the missing token.
BootstrapWithoutToken ==
    \A k \in 1..Len(exec.trace) :
      (/\ exec.resource = "auth"
       /\ exec.accessToken = ""
       /\ exec.items[k].json.access_token = ""
       /\ exec.items[k].operation = Return(<<"noAuth">>)) =>
        /\ exec.trace[k].dispatched
        /\ exec.trace[k].error.message # <<NoAccessTokenMessage>>

====
